---- MODULE Spec2Model ----
(***************************************************************************)
(* Model of cvat-core/src/frames.js: the per-task frame cache registry     *)
(* (frameDataCache), the chunk request slots (activeChunkRequest and       *)
(* nextChunkRequest) driven by FrameData.prototype.data, the promise chain *)
(* of makeActiveRequest, getFrame and getRanges.                          *)
(*                                                                         *)
(* The decoder (cvatData.FrameProvider) and the server proxy are external: *)
(* the server settles every getData call with success or failure, the      *)
(* decoder calls the callbacks it was handed, in its own time; it may hold *)
(* a frame it has decoded and a block it was handed, or may have evicted   *)
(* them, so frame() may answer null and isChunkCached() false at any time. *)
(*                                                                         *)
(* Only the isBrowser branch of data() is modelled (the isNode branch      *)
(* resolves with a dummy string and touches no state).                     *)
(***************************************************************************)
EXTENDS Integers, Sequences, FiniteSets, TLC

\* ---------------------------------------------------------------- bounds
MaxReq == 3         \* number of data() calls in one behaviour
MaxFrame == 1       \* stopFrame of the task: frames are 0..MaxFrame
StartFrame == 0     \* startFrame of the task

MaxEntries == 2     \* cache entries ever created (getFrame calls that await getMeta)
MaxRegReq == 1      \* number of data() calls in a behaviour of SpecReg
MaxChunkSize == 520 \* largest chunkSize a budget is computed for in SpecBudget
MaxFetchFail == 1   \* getData calls that are rejected in one behaviour
MaxDecodeFail == 1  \* decode requests the decoder gives up in one behaviour

StopFrame == MaxFrame
Frames == StartFrame..StopFrame
Tasks == {1, 2}
ChunkSizes == {1, 2}    \* the chunkSize a task is opened with

VARIABLES
    frameDataCache,   \* the registry: task id -> index into heap, 0 = no entry
    heap,             \* the cache entry objects ever created, in creation order
    reqs,             \* the data() calls made so far, with the calls of resolve/reject
    fetches,          \* serverProxy.frames.getData promises and their handlers
    jobs,             \* the decoder's queue of decode requests, oldest first
    metaCalls,        \* getFrame calls that await serverProxy.frames.getMeta
    frameData,        \* the FrameData objects getFrame has returned
    lastResult,       \* how the getFrame call that completed last has ended
    faults            \* how many getData calls and decode requests have failed

vars ==
    <<frameDataCache, heap, reqs, fetches, jobs, metaCalls, frameData, lastResult, faults>>

\* ------------------------------------------------------------ primitives
Max(a, b) == IF a >= b THEN a ELSE b
Min(a, b) == IF a <= b THEN a ELSE b

\* activeChunkRequest / nextChunkRequest = undefined
Undefined ==
    [id |-> 0, chunkNumber |-> -1, start |-> 0, stop |-> 0,
     completed |-> FALSE, callbacks |-> <<>>]

\* lines 93-101: the chunk of a frame number
ChunkStart(number, chunkSize, startFrame) ==
    Max(startFrame, (number \div chunkSize) * chunkSize)

ChunkStop(number, chunkSize, stopFrame) ==
    Min(stopFrame, ((number \div chunkSize) + 1) * chunkSize - 1)

ChunkNumber(number, chunkSize) == number \div chunkSize

\* the object literal of lines 174-187 and 203-216; id names the object
\* (the data() call that created it)
NewChunkRequest(w, number, chunkSize) ==
    [id |-> w,
     chunkNumber |-> ChunkNumber(number, chunkSize),
     start |-> ChunkStart(number, chunkSize, StartFrame),
     stop |-> ChunkStop(number, chunkSize, StopFrame),
     completed |-> FALSE,
     callbacks |-> <<[w |-> w, frameNumber |-> number]>>]

\* an assignment of a one-element array where the code pushes
pushAlone(callbacks, waiter) == <<waiter>>

\* callbacks.push({ resolve, reject, frameNumber }), lines 190-194 and 219-223
push(callbacks, waiter) == Append(callbacks, waiter)

\* reqs[w] records data() call w: its frame number, the decoder's answers,
\* the calls made of its resolve and reject, the chunk request its waiter was
\* put into (slot, 0 for none) and the calls of onServerRequest.

\* a handler that calls neither continuation
SettleNothing(rq, w, kind, value) == rq

\* a call of the resolve or reject continuation of data() call w
Settle(rq, w, kind, value) ==
    [rq EXCEPT ![w].calls = Append(@, [kind |-> kind, value |-> value])]

\* a loop over callbacks that rejects none of them
RejectNone(rq, callbacks) == rq

\* for (const r of callbacks) r.reject(r.frameNumber)
RECURSIVE RejectEach(_, _)
RejectEach(rq, callbacks) ==
    IF callbacks = <<>> THEN rq
    ELSE RejectEach(Settle(rq, Head(callbacks).w, "reject", Head(callbacks).frameNumber),
                    Tail(callbacks))

\* callback.resolve(provider.frame(callback.frameNumber))
RECURSIVE ResolveEach(_, _)
ResolveEach(rq, callbacks) ==
    IF callbacks = <<>> THEN rq
    ELSE ResolveEach(Settle(rq, Head(callbacks).w, "resolve", Head(callbacks).frameNumber),
                     Tail(callbacks))

\* the program state a handler works on
State == [heap |-> heap, reqs |-> reqs, fetches |-> fetches, jobs |-> jobs]

Active(S, i) == S.heap[i].activeChunkRequest
Next_(S, i) == S.heap[i].nextChunkRequest

\* ------------------------------------------------- closures of data()
\* lines 103-118; the closure holds this.tid, chunkNumber and provider
onDecodeAll(S, tid, chunkNumber, frameNumber) ==
    LET i == frameDataCache[tid]
        a == Active(S, i)
        hit == SelectSeq(a.callbacks, LAMBDA c : c.frameNumber = frameNumber)
        rest == SelectSeq(a.callbacks, LAMBDA c : c.frameNumber # frameNumber)
    IN  IF a # Undefined /\ chunkNumber = a.chunkNumber
        THEN [S EXCEPT
                !.reqs = ResolveEach(@, hit),
                !.heap[i].activeChunkRequest =
                    IF rest = <<>> THEN Undefined ELSE [a EXCEPT !.callbacks = rest]]
        ELSE S

\* lines 120-128
rejectRequestAll(S, tid, chunkNumber) ==
    LET i == frameDataCache[tid]
        a == Active(S, i)
    IN  IF a # Undefined /\ chunkNumber = a.chunkNumber
        THEN [S EXCEPT
                !.reqs = RejectEach(@, a.callbacks),
                !.heap[i].activeChunkRequest = Undefined]
        ELSE S

\* lines 130-134: the synchronous part, which issues getData; owner is the
\* data() call whose closure this is (its reject is the one .catch calls)
makeActiveRequest(S, tid, owner) ==
    LET i == frameDataCache[tid]
        activeChunk == Active(S, i)
    IN  IF activeChunk = Undefined
        THEN S      \* TypeError on activeChunk.request: no call is made
        ELSE [S EXCEPT
                !.fetches = @ \cup
                {[owner |-> owner, tid |-> tid, taskDataCache |-> i, provider |-> i,
                  slot |-> activeChunk.id, chunkNumber |-> activeChunk.chunkNumber,
                  phase |-> "pending"]}]

\* ------------------------------------------------- the decoder's interface
\* provider.frame(number) can answer a frame only if the decoder decoded it
CanHit(i, number) == number \in heap[i].provider.frames

\* provider.isChunkCached(start, stop) can answer true only for a range the
\* decoder was handed the bytes of
CanBeCached(i, start, stop) == <<start, stop>> \in heap[i].provider.blocks

\* provider.requestDecodeBlock(block, start, stop, onDecodeAll, rejectRequestAll):
\* block is <<c>> for the bytes of chunk c and <<>> for null; the two callbacks
\* are the closures of one data() call, named by its tid and chunkNumber.
\* by names who asked: the chunk request whose start, stop and callbacks are
\* passed (line 136), or the data() call itself (line 224).
requestDecodeBlock(S, i, block, start, stop, tid, chunkNumber, by) ==
    [S EXCEPT
        !.heap[i].provider.blocks =
            IF block # <<>> THEN @ \cup {<<start, stop>>} ELSE @,
        !.jobs = Append(@,
            [provider |-> i, block |-> block, start |-> start, stop |-> stop,
             tid |-> tid, chunkNumber |-> chunkNumber, by |-> by, at |-> start])]

\* ------------------------------------------------- the getData promise chain
\* lines 141-147: .catch rejects the data() call that owns the closure
getDataCatch(S, f) == [S EXCEPT !.reqs = Settle(@, f.owner, "exception", 0)]

\* lines 134-141: .then; a TypeError thrown in it is handled by .catch
getDataThen(S, f) ==
    LET cur == frameDataCache[f.tid]
        S1 == [S EXCEPT !.heap[cur].activeChunkRequest.completed = TRUE]
        t == Active(S1, f.taskDataCache)
    IN  IF Active(S, cur) = Undefined THEN getDataCatch(S, f)
        ELSE IF t = Undefined THEN getDataCatch(S1, f)
        ELSE requestDecodeBlock(S1, f.provider, <<f.chunkNumber>>,
                                t.start, t.stop, f.tid, t.chunkNumber, t.id)

\* lines 147-158: .finally
getDataFinally(S, f) ==
    LET i == f.taskDataCache
        a == Active(S, i)
        S1 == [S EXCEPT
                !.reqs = IF a # Undefined THEN RejectEach(@, a.callbacks) ELSE @,
                !.heap[i].activeChunkRequest = Next_(S, i),
                !.heap[i].nextChunkRequest = Undefined]
    IN  IF Next_(S, i) # Undefined
        THEN makeActiveRequest(S1, f.tid, f.owner)
        ELSE S

\* ------------------------------------------------- data()
\* lines 164-236: the handler of provider.frame(this.number); w is the new
\* data() call, already entered in S.reqs with the decoder's two answers
dataHandler(S, tid, w, number) ==
    LET i == frameDataCache[tid]
        chunkSize == S.heap[i].chunkSize
        start == ChunkStart(number, chunkSize, StartFrame)
        stop == ChunkStop(number, chunkSize, StopFrame)
        chunkNumber == ChunkNumber(number, chunkSize)
        me == [w |-> w, frameNumber |-> number]
        \* onServerRequest()
        Sn == [S EXCEPT !.reqs[w].serverRequests = @ + 1]
        a == Active(Sn, i)
        n == Next_(Sn, i)
        \* lines 171-188
        Sr == IF a # Undefined THEN rejectRequestAll(Sn, tid, a.chunkNumber) ELSE Sn
        Sa == [Sr EXCEPT !.heap[i].activeChunkRequest =
                            NewChunkRequest(w, number, chunkSize),
                         !.reqs[w].slot = w]
    IN  IF S.reqs[w].frame
        THEN [S EXCEPT !.reqs = Settle(@, w, "resolve", number)]
        ELSE IF ~S.reqs[w].isChunkCached
        THEN IF a = Undefined \/ a.completed
             THEN makeActiveRequest(Sa, tid, w)
             ELSE IF a.chunkNumber = chunkNumber
             THEN [Sn EXCEPT !.heap[i].activeChunkRequest.callbacks = push(@, me),
                             !.reqs[w].slot = a.id]
             ELSE [Sn EXCEPT
                    !.reqs = IF n # Undefined THEN RejectEach(@, n.callbacks) ELSE @,
                    !.heap[i].nextChunkRequest = NewChunkRequest(w, number, chunkSize),
                    !.reqs[w].slot = w]
        ELSE IF a = Undefined
             \* TypeError on undefined.callbacks, handled by the .catch of line 230
             THEN [Sn EXCEPT !.reqs = Settle(@, w, "exception", 0)]
             ELSE requestDecodeBlock(
                    [Sn EXCEPT !.heap[i].activeChunkRequest.callbacks = push(@, me),
                               !.reqs[w].slot = a.id],
                    i, <<>>, start, stop, tid, chunkNumber, w)

\* ------------------------------------------------- actions
Commit(S) ==
    /\ heap' = S.heap
    /\ reqs' = S.reqs
    /\ fetches' = S.fetches
    /\ jobs' = S.jobs
    /\ UNCHANGED <<frameDataCache, metaCalls, frameData, lastResult>>

NoFault == [getData |-> 0, decode |-> 0]

\* The handlers of a settled getData are promise reactions (lines 133-158):
\* once .then or .catch has run, .finally runs before the event loop takes
\* its next task. The completion of another getData and the messages of the
\* decoder's worker are tasks; only code that itself runs as a promise
\* reaction, such as a data() call made after an await, can run in between.
NoReaction == \A g \in fetches : g.phase = "pending"

\* FrameData.prototype.data.implementation, browser branch
\* frame: provider.frame() answered a frame, not null;
\* cached: the answer of provider.isChunkCached(start, stop), asked on a miss
Data(tid, number, frame, cached) ==
    /\ Len(reqs) < MaxReq
    /\ [tid |-> tid, number |-> number] \in frameData
    /\ LET i == frameDataCache[tid]
           chunkSize == heap[i].chunkSize
           w == Len(reqs) + 1
           S == [State EXCEPT !.reqs = Append(@,
                    [tid |-> tid, frameNumber |-> number,
                     frame |-> frame, isChunkCached |-> cached,
                     calls |-> <<>>, serverRequests |-> 0,
                     slot |-> 0])]
       IN  /\ frame => CanHit(i, number) /\ ~cached
           /\ cached => CanBeCached(i, ChunkStart(number, chunkSize, StartFrame),
                                       ChunkStop(number, chunkSize, StopFrame))
           /\ Commit(dataHandler(S, tid, w, number))
    /\ UNCHANGED faults

\* getData resolves: .then runs (and .catch, when .then throws)
FetchSuccess(f) ==
    /\ NoReaction
    /\ f \in fetches /\ f.phase = "pending"
    /\ LET S == [State EXCEPT
                    !.fetches = (@ \ {f}) \cup {[f EXCEPT !.phase = "fulfilled"]}]
       IN  Commit(getDataThen(S, f))
    /\ UNCHANGED faults

\* getData rejects: .catch runs
FetchFailure(f) ==
    /\ NoReaction
    /\ f \in fetches /\ f.phase = "pending"
    /\ faults.getData < MaxFetchFail
    /\ faults' = [faults EXCEPT !.getData = @ + 1]
    /\ LET S == [State EXCEPT
                    !.fetches = (@ \ {f}) \cup {[f EXCEPT !.phase = "rejected"]}]
       IN  Commit(getDataCatch(S, f))

\* the .finally handler of a settled getData
FetchFinally(f) ==
    /\ f \in fetches /\ f.phase # "pending"
    /\ LET S == [State EXCEPT !.fetches = @ \ {f}]
       IN  Commit(getDataFinally(S, f))
    /\ UNCHANGED faults

\* the sequence without its k-th element
RemoveAt(q, k) == [x \in 1..(Len(q) - 1) |-> IF x < k THEN q[x] ELSE q[x + 1]]

\* the decoder, which decodes with one worker (maxWorkerThreadCount = 1 at
\* line 297), has decoded the next frame of its oldest request and calls
\* that request's onDecodeAll
DecodeProgress ==
    /\ NoReaction
    /\ jobs # <<>>
    /\ LET j == Head(jobs)
           S == [State EXCEPT
                    !.heap[j.provider].provider.frames = @ \cup {j.at},
                    !.jobs = IF j.at < j.stop
                             THEN [@ EXCEPT ![1].at = j.at + 1]
                             ELSE Tail(@)]
       IN  Commit(onDecodeAll(S, j.tid, j.chunkNumber, j.at))
    /\ UNCHANGED faults

\* the decoder gives up its k-th request and calls that request's
\* rejectRequestAll
DecodeFailure(k) ==
    /\ NoReaction
    /\ k \in DOMAIN jobs
    /\ faults.decode < MaxDecodeFail
    /\ faults' = [faults EXCEPT !.decode = @ + 1]
    /\ LET j == jobs[k]
           S == [State EXCEPT !.jobs = RemoveAt(@, k)]
       IN  Commit(rejectRequestAll(S, j.tid, j.chunkNumber))

\* ------------------------------------------------- getFrame
\* x || 1
OrOne(x) == IF x = 0 THEN 1 ELSE x

\* lines 282-283
BlockType(chunkType) == IF chunkType = "video" THEN "MP4VIDEO" ELSE "ARCHIVE"

\* the budget without the || 1 of lines 289-290
decodedBlocksCacheSizeUnfloored(blockType, chunkSize) ==
    IF blockType = "MP4VIDEO"
    THEN (((16777216 \div 15) \div 1080) \div 4) \div chunkSize
    ELSE 500 \div chunkSize

\* lines 288-290. The code divides in floating point and floors the last
\* quotient, which for these whole numbers is the quotient of the whole-number
\* divisions taken in the same order. 2147483648 / 1920 is written
\* 16777216 / 15 (both divided by 128), since 2147483648 is beyond the
\* integers of the model checker.
decodedBlocksCacheSize(blockType, chunkSize) ==
    IF blockType = "MP4VIDEO"
    THEN OrOne((((16777216 \div 15) \div 1080) \div 4) \div chunkSize)
    ELSE OrOne(500 \div chunkSize)

\* the entry getFrame creates, lines 292-303; meta is the number of frames
\* the metadata describes
NewEntry(tid, meta, chunkSize, blockType, frame) ==
    [tid |-> tid, meta |-> meta, chunkSize |-> chunkSize,
     blockType |-> blockType,
     provider |-> [frames |-> {}, blocks |-> {}],
     lastFrameRequest |-> frame,
     decodedBlocksCacheSize |-> decodedBlocksCacheSize(blockType, chunkSize),
     activeChunkRequest |-> Undefined,
     nextChunkRequest |-> Undefined]

\* lines 261-279: getFrameSize throws an ArgumentError
getFrameSizeThrows(mode, frame, meta) ==
    IF mode = "interpolation" THEN FALSE
    ELSE IF mode = "annotation" THEN frame >= meta
    ELSE TRUE

\* lines 306-309, for a call c when the registry is fdc and the entries are h
getFrameReturn(c, fdc, h, known) ==
    LET i == fdc[c.taskID]
        throws == getFrameSizeThrows(c.mode, c.frame, h[i].meta)
    IN  /\ frameDataCache' = fdc
        /\ heap' = IF throws THEN h ELSE [h EXCEPT ![i].lastFrameRequest = c.frame]
        /\ frameData' = IF throws THEN frameData
                        ELSE frameData \cup {[tid |-> c.taskID, number |-> c.frame]}
        /\ lastResult' = [taskID |-> c.taskID, known |-> known,
                          result |-> IF throws THEN "ArgumentError" ELSE "FrameData"]

\* getFrame up to its first suspension: lines 281-285 for an unknown task,
\* the whole function for a known one
GetFrame(taskID, chunkSize, chunkType, mode, frame) ==
    LET c == [taskID |-> taskID, chunkSize |-> chunkSize,
              blockType |-> BlockType(chunkType), mode |-> mode, frame |-> frame]
    IN  /\ IF frameDataCache[taskID] = 0
           THEN /\ Len(heap) + Len(metaCalls) < MaxEntries
                /\ metaCalls' = Append(metaCalls, c)
                /\ UNCHANGED <<frameDataCache, heap, frameData, lastResult>>
           ELSE /\ getFrameReturn(c, frameDataCache, heap, TRUE)
                /\ UNCHANGED metaCalls
        /\ UNCHANGED <<reqs, fetches, jobs, faults>>

\* getMeta resolves for the k-th waiting call with the metadata of meta
\* frames: lines 288-309
GetMetaSuccess(k, meta) ==
    /\ k \in DOMAIN metaCalls
    /\ LET c == metaCalls[k]
           h == Append(heap, NewEntry(c.taskID, meta, c.chunkSize, c.blockType, c.frame))
           fdc == [frameDataCache EXCEPT ![c.taskID] = Len(h)]
       IN  getFrameReturn(c, fdc, h, FALSE)
    /\ metaCalls' = RemoveAt(metaCalls, k)
    /\ UNCHANGED <<reqs, fetches, jobs, faults>>

\* getMeta rejects for the k-th waiting call: getFrame rejects at line 285
GetMetaFailure(k) ==
    /\ k \in DOMAIN metaCalls
    /\ LET c == metaCalls[k]
       IN  lastResult' = [taskID |-> c.taskID, known |-> FALSE,
                          result |-> "ServerError"]
    /\ metaCalls' = RemoveAt(metaCalls, k)
    /\ UNCHANGED <<frameDataCache, heap, frameData, reqs, fetches, jobs, faults>>

NoResult == [taskID |-> 0, known |-> FALSE, result |-> ""]

\* ------------------------------------------------- getRanges
\* provider.cachedFrames: the decoder reports the ranges it holds
cachedFrames(provider) == provider.blocks

\* getRanges that answers no range for every task
getRangesEmpty(taskID) == {}

\* lines 312-318: the value getRanges returns
getRanges(taskID) ==
    IF frameDataCache[taskID] = 0 THEN {}
    ELSE cachedFrames(heap[frameDataCache[taskID]].provider)

\* a call of getRanges; lastResult records what it returned
GetRanges(taskID) ==
    /\ lastResult' = [taskID |-> taskID, known |-> frameDataCache[taskID] # 0,
                      result |-> "Ranges", value |-> getRanges(taskID)]
    /\ UNCHANGED <<frameDataCache, heap, reqs, fetches, jobs, metaCalls,
                   frameData, faults>>

\* ------------------------------------------------- specifications
ChunkTypes == {"video", "imageset"}
\* the metadata the server holds describes every frame of a task
MetaLength == MaxFrame + 1
\* chunkSize and chunkType of a getFrame call
ChunkArgs == {<<1, "imageset">>, <<2, "video">>}
\* mode and frame of a getFrame call: a valid pair of each mode, a frame past
\* the metadata, and a mode that does not exist
ModeFrameArgs ==
    {<<"interpolation", StartFrame>>, <<"annotation", StartFrame>>,
     <<"annotation", MetaLength>>, <<"preview", StartFrame>>}

\* Spec: the chunk requests of task 1, after getFrame has created its entry
\* and returned a FrameData for each of its frames
Init ==
    /\ frameDataCache = [t \in Tasks |-> IF t = 1 THEN 1 ELSE 0]
    /\ \E chunkSize \in ChunkSizes :
            heap = <<NewEntry(1, MetaLength, chunkSize, "ARCHIVE", StartFrame)>>
    /\ frameData = {[tid |-> 1, number |-> n] : n \in Frames}
    /\ metaCalls = <<>>
    /\ lastResult = NoResult
    /\ faults = NoFault
    /\ reqs = <<>>
    /\ fetches = {}
    /\ jobs = <<>>

Next ==
    \/ \E tid \in Tasks, number \in Frames, frame \in BOOLEAN, cached \in BOOLEAN :
            Data(tid, number, frame, cached)
    \/ \E f \in fetches : FetchSuccess(f)
    \/ \E f \in fetches : FetchFailure(f)
    \/ \E f \in fetches : FetchFinally(f)
    \/ DecodeProgress
    \/ \E k \in DOMAIN jobs : DecodeFailure(k)
    \/ \E taskID \in Tasks : GetRanges(taskID)

Spec == Init /\ [][Next]_vars

\* SpecLive: every getData call settles and the handlers of a settled getData
\* run; nothing obliges the decoder to answer or a caller to call data()
SpecLive ==
    /\ Spec
    /\ WF_vars(\E f \in fetches : FetchSuccess(f))
    /\ WF_vars(\E f \in fetches : FetchFinally(f))

\* SpecReg: the registry from the start of the process, with getFrame calls
\* for the same and for different tasks that overlap, and data() calls on the
\* FrameData objects they return; every getData and every decode succeeds
\* here (their failures are in Spec)
InitReg ==
    /\ frameDataCache = [t \in Tasks |-> 0]
    /\ heap = <<>>
    /\ frameData = {}
    /\ metaCalls = <<>>
    /\ lastResult = NoResult
    /\ faults = NoFault
    /\ reqs = <<>>
    /\ fetches = {}
    /\ jobs = <<>>

NextReg ==
    \/ \E taskID \in Tasks, ch \in ChunkArgs, mf \in ModeFrameArgs :
            GetFrame(taskID, ch[1], ch[2], mf[1], mf[2])
    \/ \E k \in DOMAIN metaCalls : GetMetaSuccess(k, MetaLength)
    \/ \E k \in DOMAIN metaCalls : GetMetaFailure(k)
    \/ \E tid \in Tasks, number \in Frames, frame \in BOOLEAN, cached \in BOOLEAN :
            Len(reqs) < MaxRegReq /\ Data(tid, number, frame, cached)
    \/ \E f \in fetches : FetchSuccess(f)
    \/ \E f \in fetches : FetchFinally(f)
    \/ DecodeProgress

SpecReg == InitReg /\ [][NextReg]_vars

\* SpecBudget: one getFrame call for a new task, for every chunkSize up to
\* MaxChunkSize and both chunk types, whose getMeta then resolves
InitBudget ==
    /\ frameDataCache = [t \in Tasks |-> 0]
    /\ heap = <<>>
    /\ frameData = {}
    /\ \E chunkSize \in 1..MaxChunkSize, chunkType \in ChunkTypes :
            metaCalls = <<[taskID |-> 1, chunkSize |-> chunkSize,
                           blockType |-> BlockType(chunkType),
                           mode |-> "interpolation", frame |-> 0]>>
    /\ lastResult = NoResult
    /\ faults = NoFault
    /\ reqs = <<>>
    /\ fetches = {}
    /\ jobs = <<>>

NextBudget == GetMetaSuccess(1, MetaLength)

SpecBudget == InitBudget /\ [][NextBudget]_vars

TypeOK ==
    /\ Len(reqs) <= MaxReq
    /\ \A f \in fetches : f.phase \in {"pending", "fulfilled", "rejected"}

\* ------------------------------------------------- claims
\* the getData calls of a task that have not settled
InFlight(tid) == {f \in fetches : f.tid = tid /\ f.phase = "pending"}

\* C1: in every reachable state at most one getData call of a task is
\* unsettled
C1_AtMostOneFetchInFlight ==
    \A tid \in Tasks : Cardinality(InFlight(tid)) <= 1

\* a step that is a data() call; the call is then the last of reqs'
DataStep == Len(reqs') = Len(reqs) + 1
\* the chunk requests of a task; a task without an entry has none
ActiveOf(tid) ==
    IF frameDataCache[tid] = 0 THEN Undefined
    ELSE heap[frameDataCache[tid]].activeChunkRequest
NextOf(tid) ==
    IF frameDataCache[tid] = 0 THEN Undefined
    ELSE heap[frameDataCache[tid]].nextChunkRequest
\* the getData calls a step issues
Issued == {f \in fetches' : f.phase = "pending"} \ fetches
\* data() call w has had its resolve or reject called in this step
SettledInStep(w) == Len(reqs'[w].calls) > Len(reqs[w].calls)

\* C2: a data() call that misses the decoder for a chunk not cached, made
\* while no getData of the task is in flight, creates the active request and
\* issues exactly one getData for its chunk; one that finds the active request
\* of its own chunk with its getData in flight is only appended to it
C2_OneGetDataPerChunk ==
    [][DataStep =>
        LET w == Len(reqs')
            r == reqs'[w]
            a == ActiveOf(r.tid)
            a2 == heap'[frameDataCache[r.tid]].activeChunkRequest
            c == ChunkNumber(r.frameNumber, heap[frameDataCache[r.tid]].chunkSize)
            me == [w |-> w, frameNumber |-> r.frameNumber]
        IN  (~r.frame /\ ~r.isChunkCached) =>
                /\ InFlight(r.tid) = {} =>
                        /\ Cardinality(Issued) = 1
                        /\ \A f \in Issued : f.chunkNumber = c /\ f.slot = w
                        /\ a2.id = w /\ a2.callbacks = <<me>>
                /\ (\E f \in InFlight(r.tid) : f.slot = a.id /\ a.chunkNumber = c) =>
                        /\ Issued = {}
                        /\ a2 = [a EXCEPT !.callbacks = Append(@, me)]]_vars

\* C3: when the getData call of the active request fails, every waiter of that
\* request is rejected and the active request is cleared
C3_FetchFailureRejectsAndClears ==
    [][\A f \in fetches :
        (f.phase = "pending" /\ [f EXCEPT !.phase = "rejected"] \in fetches') =>
            LET a == heap[f.taskDataCache].activeChunkRequest
            IN  a.id = f.slot =>
                    /\ \A k \in DOMAIN a.callbacks : SettledInStep(a.callbacks[k].w)
                    /\ heap'[f.taskDataCache].activeChunkRequest = Undefined]_vars

\* a waiter keeps the first outcome it is given: resolve and reject are the
\* functions of a Promise, and a call of either on a settled promise does
\* nothing
Settled(rq, w) == rq[w].calls # <<>>

\* the decoder finishes its oldest decode request in this step: it has decoded
\* the last frame of the range
DecodeCompletes ==
    /\ jobs # <<>> /\ jobs' = Tail(jobs)
    /\ Head(jobs).at = Head(jobs).stop
    /\ Head(jobs).at \in heap'[Head(jobs).provider].provider.frames

\* the waiters the decode request j was made for: of a block just fetched, the
\* waiters put into the chunk request when they missed a chunk not cached, with
\* a frame in its range; of the cached bytes, the data() call that asked
WaitersOf(j) ==
    IF j.block # <<>>
    THEN {w \in DOMAIN reqs :
            /\ reqs[w].slot = j.by /\ ~reqs[w].isChunkCached
            /\ j.start <= reqs[w].frameNumber /\ reqs[w].frameNumber <= j.stop}
    ELSE {j.by}

\* C4: when the decode of a fetched chunk completes, every waiter for a frame
\* of that chunk has been resolved or rejected
C4_ServedWaitersSettled ==
    [][DecodeCompletes => \A w \in WaitersOf(Head(jobs)) : Settled(reqs', w)]_vars

\* chunk request old is replaced by another chunk request
Displaced(old, new) == old # Undefined /\ new # Undefined /\ new.id # old.id

\* waiter c has been rejected with its own frame number: the first call made
\* of its resolve or reject was reject(c.frameNumber)
RejectedWithOwnFrame(rq, c) ==
    /\ Settled(rq, c.w)
    /\ Head(rq[c.w].calls) = [kind |-> "reject", value |-> c.frameNumber]

\* C5: a step that replaces the active or the next chunk request by another
\* one leaves every waiter of the replaced request rejected with its own frame
\* number
C5_DisplacedWaitersRejected ==
    [][\A i \in DOMAIN heap :
        LET a == heap[i].activeChunkRequest
            n == heap[i].nextChunkRequest
        IN  /\ Displaced(a, heap'[i].activeChunkRequest) =>
                \A k \in DOMAIN a.callbacks : RejectedWithOwnFrame(reqs', a.callbacks[k])
            /\ Displaced(n, heap'[i].nextChunkRequest) =>
                \A k \in DOMAIN n.callbacks : RejectedWithOwnFrame(reqs', n.callbacks[k])]_vars

\* C6: when every getData call settles and its handlers run, a queued next
\* request does not stay queued for ever: it is promoted or replaced
C6_QueuedNextProgresses ==
    \A tid \in Tasks, w \in 1..MaxReq :
        (NextOf(tid).id = w) ~> (NextOf(tid).id # w)

\* C7: the getData of a queued next request is never issued while the getData
\* of the active request it was queued behind is pending
C7_NextFetchAfterActiveSettled ==
    [][\A f \in Issued :
        f.slot = NextOf(f.tid).id =>
            ~\E g \in InFlight(f.tid) : g.slot = ActiveOf(f.tid).id]_vars

\* a step of getFrame: it touches neither the data() calls nor the getData
\* calls nor the decoder
GetFrameStep == UNCHANGED <<reqs, fetches, jobs, faults>>

\* C8: a getFrame call that ends with an ArgumentError for a task that has no
\* entry leaves the task without an entry
C8_FailedGetFrameCreatesNoEntry ==
    [][\A k \in DOMAIN metaCalls :
        LET c == metaCalls[k]
        IN  (/\ metaCalls' = RemoveAt(metaCalls, k)
             /\ lastResult' = [taskID |-> c.taskID, known |-> FALSE,
                               result |-> "ArgumentError"]
             /\ frameDataCache[c.taskID] = 0)
            => frameDataCache'[c.taskID] = 0]_vars

\* C9: once a task has an entry, no step of getFrame gives the task another
\* entry or changes the entry's chunkSize, budget, provider, metadata or chunk
\* requests
C9_RegistryIdempotent ==
    [][GetFrameStep =>
        \A t \in Tasks :
            frameDataCache[t] # 0 =>
                LET i == frameDataCache[t]
                IN  /\ frameDataCache'[t] = i
                    /\ [heap'[i] EXCEPT !.lastFrameRequest = 0]
                            = [heap[i] EXCEPT !.lastFrameRequest = 0]]_vars

\* C10: the budget of every entry is max(1, floor(2^31 / (1920 * 1080 * 4 *
\* chunkSize))) for video, where 2^31 / (1920 * 1080 * 4) = 524288 / 2025, and
\* max(1, floor(500 / chunkSize)) otherwise; it is at least 1, it is 55 for an
\* archive of chunkSize 9 and 1 for an archive of chunkSize above 500
C10_BudgetComputation ==
    \A i \in DOMAIN heap :
        LET e == heap[i]
        IN  /\ e.decodedBlocksCacheSize =
                    IF e.blockType = "MP4VIDEO"
                    THEN Max(1, 524288 \div (2025 * e.chunkSize))
                    ELSE Max(1, 500 \div e.chunkSize)
            /\ e.decodedBlocksCacheSize >= 1
            /\ (e.blockType = "ARCHIVE" /\ e.chunkSize = 9) =>
                    e.decodedBlocksCacheSize = 55
            /\ (e.blockType = "ARCHIVE" /\ e.chunkSize > 500) =>
                    e.decodedBlocksCacheSize = 1

\* C10 witness: getFrame has created the entry of an archive of chunkSize 9
\* with a budget of 55, or of an archive of chunkSize above 500 with budget 1
C10_Witness ==
    \E i \in DOMAIN heap :
        /\ heap[i].blockType = "ARCHIVE"
        /\ \/ heap[i].chunkSize = 9 /\ heap[i].decodedBlocksCacheSize = 55
           \/ heap[i].chunkSize > 500 /\ heap[i].decodedBlocksCacheSize = 1

\* a step in which a call of getRanges returns
GetRangesStep == lastResult' # lastResult /\ lastResult'.result = "Ranges"

\* C11: a call of getRanges changes no entry, no chunk request and no other
\* state; for a task without an entry it returns no range and the task still
\* has no entry, for a task with an entry it returns the decoder's report
C11_GetRangesReadsOnly ==
    [][GetRangesStep =>
        LET t == lastResult'.taskID
        IN  /\ UNCHANGED <<frameDataCache, heap, reqs, fetches, jobs, metaCalls,
                           frameData>>
            /\ frameDataCache[t] = 0 =>
                    lastResult'.value = {} /\ frameDataCache'[t] = 0
            /\ frameDataCache[t] # 0 =>
                    lastResult'.value = cachedFrames(heap[frameDataCache[t]].provider)]_vars

\* C11 witness: getRanges has returned a range the decoder holds for a task
\* with an entry, while a chunk request of the task is active
C11_Witness ==
    /\ lastResult.result = "Ranges" /\ lastResult.known
    /\ lastResult.value # {}
    /\ ActiveOf(lastResult.taskID) # Undefined

\* the settled getData calls whose .finally handler runs in this step
Finished == {f \in fetches : f.phase # "pending"} \ fetches'

\* C12: when the .finally handler of a getData call runs and a next request
\* is queued, every waiter of the active request is left rejected with its own
\* frame number, the next request becomes the active one, no next request is
\* left and one getData call, for the chunk of the promoted request, is issued;
\* when no next request is queued, no getData call is issued
C12_FinallyPromotesNext ==
    [][\A f \in Finished :
        LET a == heap[f.taskDataCache].activeChunkRequest
            n == heap[f.taskDataCache].nextChunkRequest
        IN  /\ n # Undefined =>
                /\ \A k \in DOMAIN a.callbacks :
                        RejectedWithOwnFrame(reqs', a.callbacks[k])
                /\ heap'[f.taskDataCache].activeChunkRequest = n
                /\ heap'[f.taskDataCache].nextChunkRequest = Undefined
                /\ Cardinality(Issued) = 1
                /\ \A g \in Issued : g.chunkNumber = n.chunkNumber /\ g.slot = n.id
            /\ n = Undefined => Issued = {}]_vars

\* the getData calls that are fulfilled in this step: their .then handler runs
Fulfilled == {f \in fetches : f.phase = "pending" /\ [f EXCEPT !.phase = "fulfilled"] \in fetches'}

\* C13: the .then handler of a getData call for chunk c hands the decoder the
\* bytes of chunk c with the range and the callbacks of the chunk request the
\* getData was made for, whose chunkNumber is c, and marks no other chunk
\* request completed
C13_DecodedBlockMatchesRequest ==
    [][\A f \in Fulfilled :
        /\ Len(jobs') > Len(jobs) =>
                LET j == jobs'[Len(jobs')]
                    chunkSize == heap[f.taskDataCache].chunkSize
                IN  /\ j.block = <<f.chunkNumber>>
                    /\ j.chunkNumber = f.chunkNumber /\ j.by = f.slot
                    /\ j.start = Max(StartFrame, f.chunkNumber * chunkSize)
                    /\ j.stop = Min(StopFrame, (f.chunkNumber + 1) * chunkSize - 1)
        /\ \A i \in DOMAIN heap :
                (heap'[i].activeChunkRequest.completed
                    /\ ~heap[i].activeChunkRequest.completed) =>
                        heap[i].activeChunkRequest.id = f.slot]_vars

\* data() call w has been rejected: the first call made of its resolve or
\* reject was reject, with a frame number or with an exception
Rejected(rq, w) ==
    Settled(rq, w) /\ Head(rq[w].calls).kind \in {"reject", "exception"}

\* the data() call of this step misses the decoder for a chunk that is not
\* cached, while an active request exists and is not completed
MissUncachedBehindActive ==
    LET r == reqs'[Len(reqs')]
        a == ActiveOf(r.tid)
    IN  ~r.frame /\ ~r.isChunkCached /\ a # Undefined /\ ~a.completed

\* C14: a data() call that misses the decoder for a chunk not cached, while
\* the active request is not completed and is of another chunk, issues no
\* getData and leaves the active request as it is; the waiters of the next
\* request, if there is one, are rejected, and the next request becomes a new
\* one of the call's chunk whose only waiter is the call
C14_OtherChunkQueuesNext ==
    [][DataStep =>
        LET w == Len(reqs')
            r == reqs'[w]
            i == frameDataCache[r.tid]
            a == ActiveOf(r.tid)
            n == NextOf(r.tid)
            chunkSize == heap[i].chunkSize
            c == r.frameNumber \div chunkSize
        IN  (MissUncachedBehindActive /\ a.chunkNumber # c) =>
                /\ Issued = {}
                /\ heap'[i].activeChunkRequest = a
                /\ \A k \in DOMAIN n.callbacks : Rejected(reqs', n.callbacks[k].w)
                /\ \A x \in DOMAIN reqs :
                        SettledInStep(x) => \E k \in DOMAIN n.callbacks : n.callbacks[k].w = x
                /\ heap'[i].nextChunkRequest =
                        [id |-> w, chunkNumber |-> c,
                         start |-> Max(StartFrame, c * chunkSize),
                         stop |-> Min(StopFrame, (c + 1) * chunkSize - 1),
                         completed |-> FALSE,
                         callbacks |-> <<[w |-> w, frameNumber |-> r.frameNumber]>>]]_vars

\* C14 witness: the third data() call has replaced the next request the second
\* had queued behind the active request of the first, whose getData is pending
C14_Witness ==
    /\ Len(reqs) = 3 /\ NextOf(1).id = 3
    /\ reqs[2].slot = 2 /\ Rejected(reqs, 2)
    /\ ActiveOf(1).id = 1 /\ ~ActiveOf(1).completed
    /\ ActiveOf(1).chunkNumber # NextOf(1).chunkNumber
    /\ InFlight(1) # {}

\* C15: a data() call that misses the decoder for a chunk not cached, while
\* the active request is not completed and is of the same chunk, adds one
\* waiter, itself with its frame number, at the end of the active request's
\* callbacks and changes nothing else of the active request; it issues no
\* getData, settles no data() call and leaves the next request as it is
C15_SameChunkJoinsActive ==
    [][DataStep =>
        LET w == Len(reqs')
            r == reqs'[w]
            i == frameDataCache[r.tid]
            a == ActiveOf(r.tid)
            c == r.frameNumber \div heap[i].chunkSize
        IN  (MissUncachedBehindActive /\ a.chunkNumber = c) =>
                /\ heap'[i].activeChunkRequest =
                        [a EXCEPT !.callbacks =
                            Append(@, [w |-> w, frameNumber |-> r.frameNumber])]
                /\ Issued = {}
                /\ r.calls = <<>>
                /\ \A x \in DOMAIN reqs : ~SettledInStep(x)
                /\ heap'[i].nextChunkRequest = NextOf(r.tid)]_vars

\* C15 witness: the second data() call has joined the active request of the
\* first, whose getData is pending, while a next request is queued
C15_Witness ==
    /\ Len(reqs) = 3
    /\ ActiveOf(1).id = 1 /\ ~ActiveOf(1).completed
    /\ Len(ActiveOf(1).callbacks) = 2
    /\ ActiveOf(1).callbacks[2].w = 3 /\ reqs[3].slot = 1
    /\ NextOf(1).id = 2
    /\ InFlight(1) # {}

\* the decoder reports a decoded frame of its oldest request in this step
DecodeProgressStep ==
    /\ jobs # <<>> /\ jobs' # jobs /\ Len(jobs') <= Len(jobs)
    /\ faults' = faults

\* the chunk request whose callbacks decode request j was handed: the one the
\* block was fetched for, or the one the data() call that asked was put into
SlotOf(j) == IF j.block # <<>> THEN j.by ELSE reqs[j.by].slot

\* the chunk request of decode request j is the active request of its task
Current(j) ==
    /\ ActiveOf(j.tid) # Undefined
    /\ ActiveOf(j.tid).id = SlotOf(j)

\* C16: when the decoder reports frame n of a decode request, a waiter is
\* resolved only if the chunk request of the decode request is still the
\* active one and the waiter is in it for frame n; the waiters resolved are
\* removed from the active request, the others stay, and the active request is
\* cleared exactly when no waiter is left; when the chunk request is no longer
\* the active one, nothing is resolved and no chunk request changes
C16_DecodeProgressResolvesCurrent ==
    [][DecodeProgressStep =>
        LET j == Head(jobs)
            i == frameDataCache[j.tid]
            a == ActiveOf(j.tid)
            left == SelectSeq(a.callbacks, LAMBDA c : ~SettledInStep(c.w))
        IN  /\ \A x \in DOMAIN reqs :
                SettledInStep(x) =>
                    /\ Current(j)
                    /\ reqs[x].frameNumber = j.at
                    /\ \E k \in DOMAIN a.callbacks : a.callbacks[k].w = x
            /\ Current(j) =>
                    heap'[i].activeChunkRequest =
                        IF left = <<>> THEN Undefined ELSE [a EXCEPT !.callbacks = left]
            /\ ~Current(j) =>
                    /\ heap'[i].activeChunkRequest = a
                    /\ heap'[i].nextChunkRequest = NextOf(j.tid)]_vars

\* the decode requests the decoder gives up in this step: requests whose
\* rejectRequestAll it calls
GivenUp == {k \in DOMAIN jobs : faults'.decode = faults.decode + 1 /\ jobs' = RemoveAt(jobs, k)}

\* C17: when the decoder gives up a decode request whose chunk request is
\* still the active one, every waiter left in that request is rejected and the
\* active request is cleared, the next request stays and the data() calls
\* already settled keep their outcome; when the chunk request is no longer the
\* active one, no data() call is rejected and no chunk request changes
C17_DecodeFailureRejectsCurrent ==
    [][\A k \in GivenUp :
        LET j == jobs[k]
            i == frameDataCache[j.tid]
            a == ActiveOf(j.tid)
        IN  /\ heap'[i].nextChunkRequest = NextOf(j.tid)
            /\ \A x \in DOMAIN reqs :
                    Settled(reqs, x) => Head(reqs'[x].calls) = Head(reqs[x].calls)
            /\ Current(j) =>
                    /\ \A c \in DOMAIN a.callbacks : Rejected(reqs', a.callbacks[c].w)
                    /\ heap'[i].activeChunkRequest = Undefined
            /\ ~Current(j) =>
                    /\ \A x \in DOMAIN reqs : ~SettledInStep(x)
                    /\ heap'[i].activeChunkRequest = a]_vars

\* C18: a data() call that misses the decoder for a range the decoder reports
\* as cached issues no getData, is added as a waiter at the end of the active
\* request's callbacks and asks the decoder to decode its range with no bytes,
\* whatever the active request is
C18_CachedChunkJoinsAndDecodes ==
    [][DataStep =>
        LET w == Len(reqs')
            r == reqs'[w]
            i == frameDataCache[r.tid]
            a2 == heap'[i].activeChunkRequest
            chunkSize == heap[i].chunkSize
            c == r.frameNumber \div chunkSize
        IN  (~r.frame /\ r.isChunkCached) =>
                /\ Issued = {}
                /\ a2 # Undefined
                /\ a2.callbacks # <<>>
                /\ a2.callbacks[Len(a2.callbacks)] = [w |-> w, frameNumber |-> r.frameNumber]
                /\ Len(jobs') = Len(jobs) + 1
                /\ LET j == jobs'[Len(jobs')]
                   IN  /\ j.block = <<>>
                       /\ j.start = Max(StartFrame, c * chunkSize)
                       /\ j.stop = Min(StopFrame, (c + 1) * chunkSize - 1)]_vars

\* C19: a data() call the decoder answers with the frame is resolved with
\* that frame and does nothing else: the chunk requests, the getData calls and
\* the decode requests are as before, no other data() call is settled and
\* onServerRequest is not called; a data() call the decoder answers with null
\* calls onServerRequest once, and no later step calls it again
C19_HitResolvesOnly ==
    [][/\ \A x \in DOMAIN reqs : reqs'[x].serverRequests = reqs[x].serverRequests
       /\ DataStep =>
            LET w == Len(reqs')
                r == reqs'[w]
            IN  /\ r.frame =>
                    /\ r.calls = <<[kind |-> "resolve", value |-> r.frameNumber]>>
                    /\ r.serverRequests = 0
                    /\ heap' = heap /\ fetches' = fetches /\ jobs' = jobs
                    /\ \A x \in DOMAIN reqs : ~SettledInStep(x)
                /\ ~r.frame => r.serverRequests = 1]_vars

\* C19 witness: the last data() call was answered with a frame the decoder
\* holds and is resolved with it while a chunk request with a waiter is active
\* and its getData is pending
C19_Witness ==
    /\ reqs # <<>>
    /\ LET r == reqs[Len(reqs)]
       IN  /\ r.frame /\ r.serverRequests = 0
           /\ r.calls = <<[kind |-> "resolve", value |-> r.frameNumber]>>
           /\ ActiveOf(r.tid) # Undefined
           /\ InFlight(r.tid) # {}

\* C20: in every reachable state, a task that has a next request has an
\* active request that is not completed and is of another chunk
C20_NextBesideLiveActive ==
    \A tid \in Tasks :
        NextOf(tid) # Undefined =>
            /\ ActiveOf(tid) # Undefined
            /\ ~ActiveOf(tid).completed
            /\ ActiveOf(tid).chunkNumber # NextOf(tid).chunkNumber

====
